---- MODULE Spec2Model ----
(***************************************************************************)
(* The LMDB-backed Rend handler (lmdbh): the stored record, the expiration *)
(* test, the write-transaction handlers, the batched Get task and the      *)
(* reaper, as a state machine over the table, the clock and the tasks.     *)
(*                                                                         *)
(* A stored value is the buffer entryToBuf builds: word 1 is the exptime   *)
(* header, word 2 the flags header, the rest the payload bytes (each       *)
(* 4-byte big-endian field is one word of the model).  uint32 arithmetic   *)
(* is kept modulo U32, a scaled-down 2^32.                                 *)
(***************************************************************************)
EXTENDS Integers, Sequences, FiniteSets, TLC

\* ---------------------------------------------------------------- bounds
MaxNow == 4          \* the clock stops advancing here
MaxLen == 2          \* Append/Prepend stop growing a payload at this length
MaxBatch == 2        \* a batched Get/GetE names at most this many keys

\* ------------------------------------------------------------- constants
U32 == 16            \* modulus of the uint32 fields (scaled down from 2^32)

Keys     == {1, 2}                  \* the cursor visits keys in this order
TTLs     == {0, 1}                  \* cmd.Exptime: none, or one second
FlagVals == {0, 1}
Callers  == {1, 2, 3}               \* goroutines that call the HandlerConst
Paths    == {"dir", "file"}         \* New's path: a directory, or a regular file
Payloads == {<<1>>}               \* payloads of Set/Add/Replace requests
Extras   == {<<2>>}               \* payloads of Append/Prepend requests
NoKey    == 0

VARIABLES
    table,       \* the "rendb" DBI: a function from the present keys to buffers
    now,         \* uint32(time.Now().Unix())
    last,        \* the handler call that returned last, as its caller saw it
    rpc,         \* reaper: "sleep" | "scan" | "reap" | "after"
    rsnap,       \* reaper: the View transaction's snapshot of the table
    rcur,        \* reaper: the key the cursor stands on (NoKey before the first)
    rkey,        \* reaper: the key the mini update transaction is for
    rerr,        \* reaper: err of the cursor loop (cur.Get, then env.Update)
    untouched,   \* history: keys expired in rsnap that no handler wrote since
    refreshed,   \* history: <<ttl>> of the handler call that last stored a live
                 \* record for rkey after the scan marked it, else << >>
    rfailed,     \* history: the engine failed during this sweep
    gpc,         \* Get task: "idle" | "view" | "loop" | "senderr" | "closedata"
                 \*           | "closeerr" | "done"
    greq,        \* Get task: cmd (Keys, Opaques, Quiet) and whether it is a GetE
    gsnap,       \* Get task: the View transaction's snapshot of the table
    gidx,        \* Get task: idx of the range loop
    gerr,        \* Get task: the error the View transaction returned
    dataOut,     \* the result channel's buffer, capacity len(cmd.Keys): all that
                 \* was sent, in order (the caller's receives are not modelled)
    errorOut,    \* the error channel's buffer, capacity 1
    dataClosed,  \* close(dataOut) has run
    errorClosed, \* close(errorOut) has run
    onceDone,    \* sync.Once: done
    onceLocked,  \* sync.Once: its mutex is held
    singleton,   \* the package variable: "nil" or "handler"
    cpc,         \* constructor call of each caller: "idle" | "do" | "lock" | "init"
                 \*                                  | "return" | "panic"
    carg,        \* the path argument of New that each caller's closure holds
    cret,        \* what each caller's last call returned: "none" | "nil" | "handler"
    ninit,       \* history: how many times the initialization sequence was entered
    nreaper,     \* history: how many reaper goroutines were started
    dying,       \* a panic is unwinding out of once.Do, not recovered so far
    exited       \* the process has exited

reaperVars == <<rpc, rsnap, rcur, rkey, rerr, rfailed>>
getVars == <<gpc, greq, gsnap, gidx, gerr, dataOut, errorOut,
             dataClosed, errorClosed>>
lifeVars == <<onceDone, onceLocked, singleton, cpc, carg, cret, ninit, nreaper,
              dying, exited>>
vars == <<table, now, last, untouched, refreshed, reaperVars, getVars, lifeVars>>

\* ------------------------------------------------------------ entry codec
entryToBuf(e) == <<e.exptime, e.flags>> \o e.data

bufToEntry(b) ==
    [exptime |-> b[1], flags |-> b[2], data |-> SubSeq(b, 3, Len(b))]

\* mutant: the never-expires sentinel is not tested
expiredNoSentinel(e, t) == e.exptime < t

\* e.exptime != 0 && e.exptime < uint32(time.Now().Unix())
expired(e, t) == e.exptime # 0 /\ e.exptime < t

\* the header-only entry the reaper builds from buf[0:4]
headerEntry(b) == [exptime |-> b[1]]

\* ------------------------------------------------------- error translation
decode(err) ==
    CASE err = "nil"          -> "nil"
      [] err = "MDB_KEYEXIST" -> "ErrKeyExists"
      [] err = "MDB_NOTFOUND" -> "ErrKeyNotFound"
      [] OTHER                -> err

\* --------------------------------------------------- engine primitives
txnPut(tbl, k, buf) ==
    [x \in (DOMAIN tbl) \cup {k} |-> IF x = k THEN buf ELSE tbl[x]]

txnDel(tbl, k) == [x \in (DOMAIN tbl) \ {k} |-> tbl[x]]

\* ---------------------------------------------- expiration of a request
\* mutant: the cmd.Exptime > 0 test is missing
setExptimeAlways(ttl, t) == (t + ttl) % U32

\* Set/Add/Replace: exptime stays 0 unless cmd.Exptime > 0
setExptime(ttl, t) == IF ttl > 0 THEN (t + ttl) % U32 ELSE 0

\* Touch/GAT: uint32(time.Now().Unix()) + cmd.Exptime, unconditionally
touchExptime(ttl, t) == (t + ttl) % U32

\* ------------------------------------------- the transaction bodies
\* Each yields the table the transaction commits and the engine's error.
SetTxn(tbl, k, buf) == [tbl |-> txnPut(tbl, k, buf), err |-> "nil"]

\* mutant: an expired record does not count as present
AddTxnOverExpired(tbl, k, buf) ==
    IF k \in DOMAIN tbl /\ ~(tbl[k][1] # 0 /\ tbl[k][1] < now)
    THEN [tbl |-> tbl, err |-> "MDB_KEYEXIST"]
    ELSE [tbl |-> txnPut(tbl, k, buf), err |-> "nil"]

\* mutant: Put without lmdb.NoOverwrite
AddTxnOverwrites(tbl, k, buf) == [tbl |-> txnPut(tbl, k, buf), err |-> "nil"]

AddTxn(tbl, k, buf) ==
    IF k \in DOMAIN tbl
    THEN [tbl |-> tbl, err |-> "MDB_KEYEXIST"]
    ELSE [tbl |-> txnPut(tbl, k, buf), err |-> "nil"]

\* mutant: the existence check before the Put is missing
ReplaceTxnCreates(tbl, k, buf) == [tbl |-> txnPut(tbl, k, buf), err |-> "nil"]

ReplaceTxn(tbl, k, buf) ==
    IF k \notin DOMAIN tbl
    THEN [tbl |-> tbl, err |-> "MDB_NOTFOUND"]
    ELSE [tbl |-> txnPut(tbl, k, buf), err |-> "nil"]

AppendTxn(tbl, k, data) ==
    IF k \notin DOMAIN tbl
    THEN [tbl |-> tbl, err |-> "MDB_NOTFOUND"]
    ELSE LET prev == bufToEntry(tbl[k])
             e == [exptime |-> prev.exptime, flags |-> prev.flags,
                   data |-> prev.data \o data]
         IN [tbl |-> txnPut(tbl, k, entryToBuf(e)), err |-> "nil"]

\* mutant: the new bytes go after the old ones, as in Append
PrependTxnAppends(tbl, k, data) ==
    IF k \notin DOMAIN tbl
    THEN [tbl |-> tbl, err |-> "MDB_NOTFOUND"]
    ELSE LET prev == bufToEntry(tbl[k])
             e == [exptime |-> prev.exptime, flags |-> prev.flags,
                   data |-> prev.data \o data]
         IN [tbl |-> txnPut(tbl, k, entryToBuf(e)), err |-> "nil"]

PrependTxn(tbl, k, data) ==
    IF k \notin DOMAIN tbl
    THEN [tbl |-> tbl, err |-> "MDB_NOTFOUND"]
    ELSE LET prev == bufToEntry(tbl[k])
             e == [exptime |-> prev.exptime, flags |-> prev.flags,
                   data |-> data \o prev.data]
         IN [tbl |-> txnPut(tbl, k, entryToBuf(e)), err |-> "nil"]

\* e is the handler's captured entry: the zero entry until the Get succeeds
GATTxn(tbl, k, ttl, t) ==
    IF k \notin DOMAIN tbl
    THEN [tbl |-> tbl, err |-> "MDB_NOTFOUND",
          e |-> [exptime |-> 0, flags |-> 0, data |-> <<>>]]
    ELSE LET e == bufToEntry(tbl[k])
         IN IF expired(e, t)
            THEN [tbl |-> txnDel(tbl, k), err |-> "nil", e |-> e]
            ELSE [tbl |-> txnPut(tbl, k, [tbl[k] EXCEPT ![1] = touchExptime(ttl, t)]),
                  err |-> "nil", e |-> e]

\* mutant: a Del of an absent key reports success
DeleteTxnIgnoresAbsent(tbl, k) == [tbl |-> txnDel(tbl, k), err |-> "nil"]

DeleteTxn(tbl, k) ==
    IF k \notin DOMAIN tbl
    THEN [tbl |-> tbl, err |-> "MDB_NOTFOUND"]
    ELSE [tbl |-> txnDel(tbl, k), err |-> "nil"]

\* mutant: an expired record is treated as absent
TouchTxnChecksExpired(tbl, k, ttl, t) ==
    IF k \notin DOMAIN tbl \/ expired(bufToEntry(tbl[k]), t)
    THEN [tbl |-> tbl, err |-> "MDB_NOTFOUND"]
    ELSE [tbl |-> txnPut(tbl, k, [tbl[k] EXCEPT ![1] = touchExptime(ttl, t)]),
          err |-> "nil"]

\* mutant: only the two header words are written back
TouchTxnHeaderOnly(tbl, k, ttl, t) ==
    IF k \notin DOMAIN tbl
    THEN [tbl |-> tbl, err |-> "MDB_NOTFOUND"]
    ELSE [tbl |-> txnPut(tbl, k, <<touchExptime(ttl, t), tbl[k][2]>>), err |-> "nil"]

TouchTxn(tbl, k, ttl, t) ==
    IF k \notin DOMAIN tbl
    THEN [tbl |-> tbl, err |-> "MDB_NOTFOUND"]
    ELSE [tbl |-> txnPut(tbl, k, [tbl[k] EXCEPT ![1] = touchExptime(ttl, t)]),
          err |-> "nil"]

\* GAT's return value after the transaction
GATResponse(r) ==
    IF decode(r.err) # "nil"
    THEN IF decode(r.err) = "ErrKeyNotFound"
         THEN [miss |-> TRUE, flags |-> 0, data |-> <<>>, err |-> "nil"]
         ELSE [miss |-> FALSE, flags |-> 0, data |-> <<>>, err |-> decode(r.err)]
    ELSE [miss |-> FALSE, flags |-> r.e.flags, data |-> r.e.data, err |-> "nil"]

\* mutant: the key is read from the table as it is now, not from the read
\* transaction's snapshot
lookupLive(tbl, k, t) ==
    IF k \notin DOMAIN table
    THEN [miss |-> TRUE, exptime |-> 0, flags |-> 0, data |-> <<>>]
    ELSE LET e == bufToEntry(table[k])
         IN IF expired(e, t)
            THEN [miss |-> TRUE, exptime |-> 0, flags |-> 0, data |-> <<>>]
            ELSE [miss |-> FALSE, exptime |-> e.exptime, flags |-> e.flags,
                  data |-> e.data]

\* one key of realHandleGet's loop, on the read transaction's table
lookup(tbl, k, t) ==
    IF k \notin DOMAIN tbl
    THEN [miss |-> TRUE, exptime |-> 0, flags |-> 0, data |-> <<>>]
    ELSE LET e == bufToEntry(tbl[k])
         IN IF expired(e, t)
            THEN [miss |-> TRUE, exptime |-> 0, flags |-> 0, data |-> <<>>]
            ELSE [miss |-> FALSE, exptime |-> e.exptime, flags |-> e.flags,
                  data |-> e.data]

\* mutant: every result carries the first key's opaque
getResultFirstOpaque(cmd, idx, tbl, t) ==
    LET r == lookup(tbl, cmd.Keys[idx], t)
    IN IF cmd.withExptime
       THEN [Miss |-> r.miss, Quiet |-> cmd.Quiet[idx], Opaque |-> cmd.Opaques[1],
             Exptime |-> r.exptime, Flags |-> r.flags, Key |-> cmd.Keys[idx],
             Data |-> r.data]
       ELSE [Miss |-> r.miss, Quiet |-> cmd.Quiet[idx], Opaque |-> cmd.Opaques[1],
             Flags |-> r.flags, Key |-> cmd.Keys[idx], Data |-> r.data]

\* the GetResponse (GetEResponse for a GetE) sent for cmd.Keys[idx]
getResult(cmd, idx, tbl, t) ==
    LET r == lookup(tbl, cmd.Keys[idx], t)
    IN IF cmd.withExptime
       THEN [Miss |-> r.miss, Quiet |-> cmd.Quiet[idx], Opaque |-> cmd.Opaques[idx],
             Exptime |-> r.exptime, Flags |-> r.flags, Key |-> cmd.Keys[idx],
             Data |-> r.data]
       ELSE [Miss |-> r.miss, Quiet |-> cmd.Quiet[idx], Opaque |-> cmd.Opaques[idx],
             Flags |-> r.flags, Key |-> cmd.Keys[idx], Data |-> r.data]

\* ------------------------------------------------------------------ state
\* a handler call as the caller saw it: the handler, its key, the error it
\* returned and, for GAT, the GetResponse; stale is history, set by Add: the
\* key had an expired record when the call ran
NoCall == [op |-> "none", key |-> NoKey, err |-> "nil",
           miss |-> FALSE, rflags |-> 0, rdata |-> <<>>, stale |-> FALSE]

Call(op, k, err) ==
    [op |-> op, key |-> k, err |-> err, miss |-> FALSE, rflags |-> 0, rdata |-> <<>>,
     stale |-> FALSE]

NoRequest == [Keys |-> << >>, Opaques |-> << >>, Quiet |-> << >>, withExptime |-> FALSE]

Init ==
    /\ table = << >>
    /\ now = 1
    /\ last = NoCall
    /\ rpc = "sleep"
    /\ rsnap = << >>
    /\ rcur = NoKey
    /\ rkey = NoKey
    /\ rerr = "nil"
    /\ untouched = {}
    /\ refreshed = << >>
    /\ rfailed = FALSE
    /\ gpc = "idle"
    /\ greq = NoRequest
    /\ gsnap = << >>
    /\ gidx = 0
    /\ gerr = "nil"
    /\ dataOut = << >>
    /\ errorOut = << >>
    /\ dataClosed = FALSE
    /\ errorClosed = FALSE
    /\ onceDone = TRUE
    /\ onceLocked = FALSE
    /\ singleton = "handler"
    /\ cpc = [c \in Callers |-> "idle"]
    /\ carg = [c \in Callers |-> "dir"]
    /\ cret = [c \in Callers |-> "none"]
    /\ ninit = 1
    /\ nreaper = 1
    /\ dying = FALSE
    /\ exited = FALSE

\* The write transaction of a handler on key k ends with result r.  refresh is
\* << >>, or <<ttl>> for the handlers that store a new expiration (Set,
\* Replace, Touch, GAT).
Commit(r, k, refresh) ==
    /\ table' = r.tbl
    /\ untouched' = IF r.err = "nil" THEN untouched \ {k} ELSE untouched
    /\ refreshed' = IF /\ refresh # << >> /\ r.err = "nil"
                       /\ rpc = "reap" /\ rkey = k
                       /\ k \in DOMAIN r.tbl
                       /\ ~(r.tbl[k][1] # 0 /\ r.tbl[k][1] < now)
                    THEN refresh
                    ELSE refreshed
    /\ UNCHANGED <<now, reaperVars, lifeVars, getVars>>

\* --------------------------------------------------------------- handlers
Set(k, ttl, flags, data) ==
    LET e == [exptime |-> setExptime(ttl, now), flags |-> flags, data |-> data]
        r == SetTxn(table, k, entryToBuf(e))
    IN /\ Commit(r, k, <<ttl>>)
       /\ last' = Call("Set", k, decode(r.err))

Add(k, ttl, flags, data) ==
    LET e == [exptime |-> setExptime(ttl, now), flags |-> flags, data |-> data]
        r == AddTxn(table, k, entryToBuf(e))
    IN /\ Commit(r, k, << >>)
       /\ last' = [Call("Add", k, decode(r.err)) EXCEPT
                      !.stale = (k \in DOMAIN table /\ expired(bufToEntry(table[k]), now))]

Replace(k, ttl, flags, data) ==
    LET e == [exptime |-> setExptime(ttl, now), flags |-> flags, data |-> data]
        r == ReplaceTxn(table, k, entryToBuf(e))
    IN /\ Commit(r, k, <<ttl>>)
       /\ last' = Call("Replace", k, decode(r.err))

AppendCmd(k, data) ==
    LET r == AppendTxn(table, k, data)
    IN /\ k \in DOMAIN table => Len(table[k]) - 2 + Len(data) <= MaxLen
       /\ Commit(r, k, << >>)
       /\ last' = Call("Append", k, decode(r.err))

PrependCmd(k, data) ==
    LET r == PrependTxn(table, k, data)
    IN /\ k \in DOMAIN table => Len(table[k]) - 2 + Len(data) <= MaxLen
       /\ Commit(r, k, << >>)
       /\ last' = Call("Prepend", k, decode(r.err))

GAT(k, ttl) ==
    LET r == GATTxn(table, k, ttl, now)
        resp == GATResponse(r)
    IN /\ Commit(r, k, <<ttl>>)
       /\ last' = [Call("GAT", k, resp.err) EXCEPT
                      !.miss = resp.miss, !.rflags = resp.flags, !.rdata = resp.data]

Delete(k) ==
    LET r == DeleteTxn(table, k)
    IN /\ Commit(r, k, << >>)
       /\ last' = Call("Delete", k, decode(r.err))

Touch(k, ttl) ==
    LET r == TouchTxn(table, k, ttl, now)
    IN /\ Commit(r, k, <<ttl>>)
       /\ last' = Call("Touch", k, decode(r.err))

\* the wall clock advances by one second
Tick ==
    /\ now < MaxNow
    /\ now' = now + 1
    /\ UNCHANGED <<table, last, untouched, refreshed, reaperVars, lifeVars, getVars>>

Handlers ==
    \E k \in Keys :
        \/ \E ttl \in TTLs, f \in FlagVals, d \in Payloads :
              \/ Set(k, ttl, f, d)
              \/ Add(k, ttl, f, d)
              \/ Replace(k, ttl, f, d)
        \/ \E d \in Extras : AppendCmd(k, d) \/ PrependCmd(k, d)
        \/ \E ttl \in TTLs : GAT(k, ttl) \/ Touch(k, ttl)
        \/ Delete(k)

\* ----------------------------------------------------------------- reaper
\* mutant: the update transaction deletes without the second expired() test
ReapTxnNoRecheck(tbl, k, t) ==
    IF k \notin DOMAIN tbl
    THEN [tbl |-> tbl, err |-> "MDB_NOTFOUND"]
    ELSE [tbl |-> txnDel(tbl, k), err |-> "nil"]

\* the mini update transaction: re-fetch, re-check, delete if still expired
ReapTxn(tbl, k, t) ==
    IF k \notin DOMAIN tbl
    THEN [tbl |-> tbl, err |-> "MDB_NOTFOUND"]
    ELSE IF expired(headerEntry(tbl[k]), t)
         THEN [tbl |-> txnDel(tbl, k), err |-> "nil"]
         ELSE [tbl |-> tbl, err |-> "nil"]

\* mutant: every error of the update transaction ends the sweep
reapAbortsOnAnyError(err) == decode(err) # "nil"

\* de := decode(err); de != nil && de != common.ErrKeyNotFound
reapAborts(err) == decode(err) # "nil" /\ decode(err) # "ErrKeyNotFound"

\* cur.Get(nil, nil, lmdb.Next) on the snapshot: the keys after the cursor
cursorRest == {k \in DOMAIN rsnap : k > rcur}
\* mutant: the cursor jumps to the last key
cursorLast == CHOOSE k \in cursorRest : \A x \in cursorRest : k >= x
cursorNext == CHOOSE k \in cursorRest : \A x \in cursorRest : k <= x

\* the 30 s timer fires and the View transaction opens its snapshot
ReaperStart ==
    /\ rpc = "sleep"
    /\ rpc' = "scan"
    /\ rsnap' = table
    /\ rcur' = NoKey
    /\ rkey' = NoKey
    /\ rerr' = "nil"
    /\ untouched' = {k \in DOMAIN table : expired(headerEntry(table[k]), now)}
    /\ refreshed' = << >>
    /\ rfailed' = FALSE
    /\ UNCHANGED <<table, now, last, getVars, lifeVars>>

\* one turn of the cursor loop; a candidate goes on to its update transaction
ReaperScan ==
    /\ rpc = "scan"
    /\ \/ /\ cursorRest = {}
          /\ rerr' = "MDB_NOTFOUND"
          /\ rpc' = "after"
          /\ UNCHANGED <<rcur, rkey, rfailed>>
       \/ /\ cursorRest # {}
          /\ rerr' = "nil"
          /\ rcur' = cursorNext
          /\ IF expired(headerEntry(rsnap[cursorNext]), now)
             THEN rpc' = "reap" /\ rkey' = cursorNext
             ELSE UNCHANGED <<rpc, rkey>>
          /\ UNCHANGED rfailed
       \/ /\ rerr' = "MDB_OTHER"
          /\ rpc' = "after"
          /\ rfailed' = TRUE
          /\ UNCHANGED <<rcur, rkey>>
    /\ refreshed' = << >>
    \* the cursor only moves forward: records at or behind it are never read again
    /\ rsnap' = [k \in {x \in DOMAIN rsnap : x > rcur'} |-> rsnap[k]]
    /\ UNCHANGED <<table, now, last, untouched, getVars, lifeVars>>

\* the update transaction for rkey, then back to the cursor loop or out of it
ReaperReap ==
    /\ rpc = "reap"
    /\ \E r \in {ReapTxn(table, rkey, now), [tbl |-> table, err |-> "MDB_OTHER"]} :
          /\ table' = r.tbl
          /\ rerr' = r.err
          /\ rpc' = IF reapAborts(r.err) THEN "after" ELSE "scan"
          /\ rfailed' = (rfailed \/ reapAborts(r.err))
    /\ rkey' = NoKey
    /\ UNCHANGED <<now, last, rsnap, rcur, untouched, refreshed, getVars, lifeVars>>

\* the second View (entry count), the log lines, and back to the timer
ReaperAfter ==
    /\ rpc = "after"
    /\ rpc' = "sleep"
    /\ rsnap' = << >>
    /\ rcur' = NoKey
    /\ rerr' = "nil"
    /\ untouched' = {}
    /\ refreshed' = << >>
    /\ rfailed' = FALSE
    /\ UNCHANGED <<table, now, last, rkey, getVars, lifeVars>>

Reaper == ReaperStart \/ ReaperScan \/ ReaperReap \/ ReaperAfter

\* the handlers with one flags value and one payload, as the reaper reads
\* nothing but the exptime header
HeaderHandlers ==
    \E k \in Keys :
        \/ \E ttl \in TTLs :
              \/ Set(k, ttl, 0, <<1>>)
              \/ Add(k, ttl, 0, <<1>>)
              \/ Replace(k, ttl, 0, <<1>>)
              \/ GAT(k, ttl)
              \/ Touch(k, ttl)
        \/ Delete(k)

ReaperNext == HeaderHandlers \/ Tick \/ Reaper

SpecReaper == Init /\ [][ReaperNext]_vars

\* the reaper goroutine runs for the life of the process: its timer fires again
\* after every sweep and each of its steps is taken once it is due
SpecReaperFair == SpecReaper /\ WF_vars(Reaper)

\* ------------------------------------------------------ batched Get/GetE
\* the requests a caller may send: any key list, a distinct opaque per position
GetRequests ==
    {[Keys |-> ks,
      Opaques |-> [i \in 1..Len(ks) |-> 10 + i],
      Quiet |-> [i \in 1..Len(ks) |-> i % 2 = 1],
      withExptime |-> FALSE] :
        ks \in UNION {[1..n -> Keys] : n \in 0..MaxBatch}}

\* Handler.Get / Handler.GetE: make the two channels and start the task
StartTask(cmd) ==
    /\ gpc \in {"idle", "done"}
    /\ gpc' = "view"
    /\ greq' = cmd
    /\ gsnap' = << >>
    /\ gidx' = 0
    /\ gerr' = "nil"
    /\ dataOut' = << >>
    /\ errorOut' = << >>
    /\ dataClosed' = FALSE
    /\ errorClosed' = FALSE
    /\ UNCHANGED <<table, now, last, untouched, refreshed, reaperVars, lifeVars>>

Get(cmd) == StartTask(cmd)

GetE(cmd) == StartTask([cmd EXCEPT !.withExptime = TRUE])

\* h.env.View opens the read transaction
GetView ==
    /\ gpc = "view"
    /\ gpc' = "loop"
    /\ gsnap' = table
    /\ gidx' = 1
    /\ UNCHANGED <<table, now, last, untouched, refreshed, reaperVars, lifeVars,
                   greq, gerr, dataOut, errorOut, dataClosed, errorClosed>>

\* mutant: the loop sends a result without moving on to the next key
GetStepNoAdvance ==
    /\ gpc = "loop"
    /\ gidx <= Len(greq.Keys)
    /\ \/ /\ Len(dataOut) < Len(greq.Keys)
          /\ dataOut' = Append(dataOut, getResult(greq, gidx, gsnap, now))
          /\ UNCHANGED <<gidx, gpc, gerr, gsnap>>
       \/ /\ gerr' = decode("MDB_OTHER")
          /\ gpc' = "senderr"
          /\ gsnap' = << >>
          /\ UNCHANGED <<gidx, dataOut>>
    /\ UNCHANGED <<table, now, last, untouched, refreshed, reaperVars, lifeVars,
                   greq, errorOut, dataClosed, errorClosed>>

\* one turn of the range loop: txn.Get, the expired() test, the send on dataOut;
\* or txn.Get fails with something other than MDB_NOTFOUND and the loop returns
GetStep ==
    /\ gpc = "loop"
    /\ gidx <= Len(greq.Keys)
    /\ \/ /\ Len(dataOut) < Len(greq.Keys)
          /\ dataOut' = Append(dataOut, getResult(greq, gidx, gsnap, now))
          /\ gidx' = gidx + 1
          /\ UNCHANGED <<gpc, gerr, gsnap>>
       \/ /\ gerr' = decode("MDB_OTHER")
          /\ gpc' = "senderr"
          /\ gsnap' = << >>
          /\ UNCHANGED <<gidx, dataOut>>
    /\ UNCHANGED <<table, now, last, untouched, refreshed, reaperVars, lifeVars,
                   greq, errorOut, dataClosed, errorClosed>>

\* the range is exhausted: the closure returns nil and the View ends
GetReturn ==
    /\ gpc = "loop"
    /\ gidx > Len(greq.Keys)
    /\ gpc' = "closedata"
    /\ gsnap' = << >>
    /\ UNCHANGED <<table, now, last, untouched, refreshed, reaperVars, lifeVars,
                   greq, gidx, gerr, dataOut, errorOut, dataClosed,
                   errorClosed>>

\* mutant: the error is dropped before the channels are closed
GetSendErrDrops ==
    /\ gpc = "senderr"
    /\ gpc' = "closedata"
    /\ UNCHANGED <<table, now, last, untouched, refreshed, reaperVars, lifeVars,
                   greq, gsnap, gidx, gerr, dataOut, errorOut, dataClosed,
                   errorClosed>>

\* if err != nil { errorOut <- err }
GetSendErr ==
    /\ gpc = "senderr"
    /\ Len(errorOut) < 1
    /\ errorOut' = Append(errorOut, gerr)
    /\ gpc' = "closedata"
    /\ UNCHANGED <<table, now, last, untouched, refreshed, reaperVars, lifeVars,
                   greq, gsnap, gidx, gerr, dataOut, dataClosed,
                   errorClosed>>

\* close(dataOut)
GetCloseData ==
    /\ gpc = "closedata"
    /\ dataClosed' = TRUE
    /\ gpc' = "closeerr"
    /\ UNCHANGED <<table, now, last, untouched, refreshed, reaperVars, lifeVars,
                   greq, gsnap, gidx, gerr, dataOut, errorOut,
                   errorClosed>>

\* close(errorOut)
GetCloseErr ==
    /\ gpc = "closeerr"
    /\ errorClosed' = TRUE
    /\ gpc' = "done"
    /\ UNCHANGED <<table, now, last, untouched, refreshed, reaperVars, lifeVars,
                   greq, gsnap, gidx, gerr, dataOut, errorOut,
                   dataClosed>>

GetTask ==
    \/ \E cmd \in GetRequests : Get(cmd) \/ GetE(cmd)
    \/ GetView
    \/ GetStep
    \/ GetReturn
    \/ GetSendErr
    \/ GetCloseData
    \/ GetCloseErr

\* the writers that run beside a batch
GetWriters ==
    \E k \in Keys :
        \/ \E ttl \in TTLs : Set(k, ttl, 1, <<1>>)
        \/ Delete(k)

GetNext == GetWriters \/ Tick \/ GetTask

SpecGet == Init /\ [][GetNext]_vars

\* the steps of the goroutine that Get/GetE started
GetRun ==
    GetView \/ GetStep \/ GetReturn \/ GetSendErr \/ GetCloseData \/ GetCloseErr

\* the goroutine is scheduled as long as it can take a step
SpecGetFair == SpecGet /\ WF_vars(GetRun)

\* ------------------------------------------------ New and the singleton
\* the process before the first call of the constructor
InitLife ==
    /\ table = << >>
    /\ now = 1
    /\ last = NoCall
    /\ rpc = "sleep"
    /\ rsnap = << >>
    /\ rcur = NoKey
    /\ rkey = NoKey
    /\ rerr = "nil"
    /\ untouched = {}
    /\ refreshed = << >>
    /\ rfailed = FALSE
    /\ gpc = "idle"
    /\ greq = NoRequest
    /\ gsnap = << >>
    /\ gidx = 0
    /\ gerr = "nil"
    /\ dataOut = << >>
    /\ errorOut = << >>
    /\ dataClosed = FALSE
    /\ errorClosed = FALSE
    /\ onceDone = FALSE
    /\ onceLocked = FALSE
    /\ singleton = "nil"
    /\ cpc = [c \in Callers |-> "idle"]
    /\ carg = [c \in Callers |-> "dir"]
    /\ cret = [c \in Callers |-> "none"]
    /\ ninit = 0
    /\ nreaper = 0
    /\ dying = FALSE
    /\ exited = FALSE

lifeFrame == UNCHANGED <<table, now, last, untouched, refreshed, reaperVars, getVars>>

\* caller c calls New(p, size) and then the HandlerConst it returned
New(c, p) ==
    /\ ~exited
    /\ cpc[c] = "idle"
    /\ cpc' = [cpc EXCEPT ![c] = "do"]
    /\ carg' = [carg EXCEPT ![c] = p]
    /\ cret' = [cret EXCEPT ![c] = "none"]
    /\ UNCHANGED <<onceDone, onceLocked, singleton, ninit, nreaper, dying, exited>>
    /\ lifeFrame

\* once.Do: the load of done on the fast path
OnceDo(c) ==
    /\ ~exited
    /\ cpc[c] = "do"
    /\ cpc' = [cpc EXCEPT ![c] = IF onceDone THEN "return" ELSE "lock"]
    /\ UNCHANGED <<onceDone, onceLocked, singleton, carg, cret, ninit, nreaper,
                   dying, exited>>
    /\ lifeFrame

\* once.Do: the mutex is taken and done is read again; if it is still unset
\* the function runs with the mutex held, else the mutex is released at once
OnceLock(c) ==
    /\ ~exited
    /\ cpc[c] = "lock"
    /\ ~onceLocked
    /\ IF onceDone
       THEN /\ cpc' = [cpc EXCEPT ![c] = "return"]
            /\ UNCHANGED <<onceLocked, ninit>>
       ELSE /\ cpc' = [cpc EXCEPT ![c] = "init"]
            /\ onceLocked' = TRUE
            /\ ninit' = ninit + 1
    /\ UNCHANGED <<onceDone, singleton, carg, cret, nreaper, dying, exited>>
    /\ lifeFrame

\* the initialization sequence runs to its end: the environment is opened on
\* a directory, the table is created, singleton is set, the reaper is started;
\* then the deferred store of done and the unlock
InitDone(c) ==
    /\ ~exited
    /\ cpc[c] = "init"
    /\ carg[c] = "dir"
    /\ singleton' = "handler"
    /\ nreaper' = nreaper + 1
    /\ onceDone' = TRUE
    /\ onceLocked' = FALSE
    /\ cpc' = [cpc EXCEPT ![c] = "return"]
    /\ UNCHANGED <<carg, cret, ninit, dying, exited>>
    /\ lifeFrame

\* the initialization sequence panics (the path is a regular file, or an
\* engine or file-system call fails): the deferred store of done and the
\* unlock run while the panic unwinds the caller's goroutine
InitPanic(c) ==
    /\ ~exited
    /\ cpc[c] = "init"
    /\ onceDone' = TRUE
    /\ onceLocked' = FALSE
    /\ cpc' = [cpc EXCEPT ![c] = "panic"]
    /\ dying' = TRUE
    /\ UNCHANGED <<singleton, carg, cret, ninit, nreaper, exited>>
    /\ lifeFrame

\* return singleton, nil
Return(c) ==
    /\ ~exited
    /\ cpc[c] = "return"
    /\ cret' = [cret EXCEPT ![c] = singleton]
    /\ cpc' = [cpc EXCEPT ![c] = "idle"]
    /\ UNCHANGED <<onceDone, onceLocked, singleton, carg, ninit, nreaper, dying,
                   exited>>
    /\ lifeFrame

\* the panic, not recovered, ends the process
Exit ==
    /\ dying
    /\ ~exited
    /\ exited' = TRUE
    /\ UNCHANGED <<onceDone, onceLocked, singleton, cpc, carg, cret, ninit,
                   nreaper, dying>>
    /\ lifeFrame

LifeNext ==
    \/ \E c \in Callers :
          \/ \E p \in Paths : New(c, p)
          \/ OnceDo(c)
          \/ OnceLock(c)
          \/ InitDone(c)
          \/ InitPanic(c)
          \/ Return(c)
    \/ Exit

SpecLife == InitLife /\ [][LifeNext]_vars

\* ------------------------------------- expiration over the whole uint32 range
\* cmd.Exptime is a uint32: any positive value of the field
WrapTTLs == 1..(U32 - 1)

\* the handler starts at any value of uint32(time.Now().Unix())
InitWrap ==
    /\ table = << >>
    /\ now \in 0..(U32 - 1)
    /\ last = NoCall
    /\ rpc = "sleep"
    /\ rsnap = << >>
    /\ rcur = NoKey
    /\ rkey = NoKey
    /\ rerr = "nil"
    /\ untouched = {}
    /\ refreshed = << >>
    /\ rfailed = FALSE
    /\ gpc = "idle"
    /\ greq = NoRequest
    /\ gsnap = << >>
    /\ gidx = 0
    /\ gerr = "nil"
    /\ dataOut = << >>
    /\ errorOut = << >>
    /\ dataClosed = FALSE
    /\ errorClosed = FALSE
    /\ onceDone = TRUE
    /\ onceLocked = FALSE
    /\ singleton = "handler"
    /\ cpc = [c \in Callers |-> "idle"]
    /\ carg = [c \in Callers |-> "dir"]
    /\ cret = [c \in Callers |-> "none"]
    /\ ninit = 1
    /\ nreaper = 1
    /\ dying = FALSE
    /\ exited = FALSE

\* the handlers that compute an expiration from a positive TTL, on one key
WrapNext ==
    \E k \in {1}, ttl \in WrapTTLs :
        \/ Set(k, ttl, 0, <<1>>)
        \/ Add(k, ttl, 0, <<1>>)
        \/ Replace(k, ttl, 0, <<1>>)

SpecWrap == InitWrap /\ [][WrapNext]_vars

Next == Handlers \/ Tick

Spec == Init /\ [][Next]_vars

\* ===================================================================
\* The properties.  The two definitions below are the specification's
\* expiration policy, used to state them.
is_expired(expiration, t) == expiration # 0 /\ expiration < t

compute_expiration(ttl, t) == IF ttl = 0 THEN 0 ELSE (t + ttl) % U32

payloadOf(buf) == SubSeq(buf, 3, Len(buf))

\* C1: a GAT on a key whose stored entry is expired deletes the entry and
\* returns a miss without error, and a Get of the key right afterwards misses.
C1_GATExpiredIsMiss ==
    [][\A k \in Keys, ttl \in TTLs :
          (GAT(k, ttl) /\ k \in DOMAIN table /\ is_expired(table[k][1], now))
          => /\ k \notin DOMAIN table'
             /\ last'.miss
             /\ last'.err = "nil"
             /\ lookup(table', k, now').miss]_vars

\* C2: the expiration Touch writes, and GAT writes on a non-expired entry, is
\* compute_expiration(ttl, now): 0 for a TTL of 0, so that the entry is a hit
\* at every later time, and now + ttl otherwise.
C2_TouchStoresComputedExpiration ==
    [][\A k \in Keys, ttl \in TTLs :
          (/\ k \in DOMAIN table
           /\ \/ Touch(k, ttl)
              \/ GAT(k, ttl) /\ ~is_expired(table[k][1], now))
          => /\ k \in DOMAIN table'
             /\ table'[k][1] = compute_expiration(ttl, now)
             /\ ttl = 0 => \A t \in now..(U32 - 1) : ~lookup(table', k, t).miss]_vars

\* C3 as stated: once the scan has marked rkey, if a Set, Replace, Touch or GAT
\* commits a record for it that is not expired at that commit, the reaper's
\* update transaction for rkey leaves the table unchanged.  (Stated for the
\* calls with a positive TTL, which store now + ttl.)
C3_RefreshedNeverReaped ==
    [][(ReaperReap /\ refreshed # << >> /\ refreshed[1] > 0) => table' = table]_vars

\* C3 as amended: the same, when the record the handler committed is still not
\* expired at the time of the reaper's update transaction.
C3_RefreshedLiveNotReaped ==
    [][(/\ ReaperReap
        /\ refreshed # << >>
        /\ rkey \in DOMAIN table
        /\ ~is_expired(table[rkey][1], now))
       => table' = table]_vars

\* the update transaction for the refreshed key rcur has run and left it there
C3_Witness ==
    /\ rpc = "scan"
    /\ refreshed # << >>
    /\ rcur \in DOMAIN table
    /\ ~is_expired(table[rcur][1], now)

\* at the end of a sweep without an engine failure, every key that was expired
\* in the sweep's snapshot and that no handler wrote during the sweep is gone
SweepRemovesExpired ==
    (rpc = "after" /\ ~rfailed) => \A k \in untouched : k \notin DOMAIN table

\* C4: a key that is expired when a sweep takes its snapshot, that no handler
\* writes during the sweep, is absent when the sweep ends without an engine
\* failure; and, the sweeps recurring, an expired entry is eventually removed
\* unless a handler stores a live record for it or the engine fails.
C4_ReaperLiveness ==
    /\ []SweepRemovesExpired
    /\ \A k \in Keys :
          (k \in DOMAIN table /\ is_expired(table[k][1], now))
          ~> (k \notin DOMAIN table \/ ~is_expired(table[k][1], now) \/ rfailed)

C4_Witness ==
    /\ rpc = "after"
    /\ ~rfailed
    /\ untouched = Keys

\* C5: a key leaves the table only by a Delete of that key, or by a GAT of that
\* key or the reaper's update transaction for it while the stored entry is
\* expired (expiration # 0 and expiration < now).
C5_NoSilentLoss ==
    [][\A k \in Keys :
          (k \in DOMAIN table /\ k \notin DOMAIN table')
          => \/ Delete(k)
             \/ /\ is_expired(table[k][1], now)
                /\ \/ \E ttl \in TTLs : GAT(k, ttl)
                   \/ ReaperReap /\ rkey = k]_vars

\* the reaper has just removed rcur, which no handler wrote during the sweep
C5_Witness ==
    /\ rpc = "scan"
    /\ rcur \in untouched
    /\ rcur \notin DOMAIN table
    /\ DOMAIN table # {}

\* what C6 expects as the result for cmd.Keys[i], read from snap at time t
C6_ResultOk(res, cmd, i, snap, t) ==
    LET k == cmd.Keys[i]
        miss == k \notin DOMAIN snap \/ is_expired(snap[k][1], t)
    IN /\ res.Key = k
       /\ res.Opaque = cmd.Opaques[i]
       /\ res.Quiet = cmd.Quiet[i]
       /\ res.Miss = miss
       /\ ~miss => res.Flags = snap[k][2] /\ res.Data = payloadOf(snap[k])

\* C6: a batch that meets no engine failure delivers exactly one result per
\* key, in request order, each with its key's opaque and quiet flag, a miss if
\* the key is absent or expired and a hit with the stored flags and payload
\* otherwise.
C6_BatchResults ==
    /\ [][(GetStep /\ gidx' = gidx + 1)
          => /\ Len(dataOut') = gidx
             /\ SubSeq(dataOut', 1, gidx - 1) = dataOut
             /\ C6_ResultOk(dataOut'[gidx], greq, gidx, gsnap, now)]_vars
    /\ []((gpc = "done" /\ gerr = "nil")
          => /\ Len(dataOut) = Len(greq.Keys)
             /\ \A i \in 1..Len(dataOut) :
                   /\ dataOut[i].Key = greq.Keys[i]
                   /\ dataOut[i].Opaque = greq.Opaques[i]
                   /\ dataOut[i].Quiet = greq.Quiet[i]
             /\ errorOut = << >>)

C6_Witness ==
    /\ gpc = "done"
    /\ gerr = "nil"
    /\ Len(dataOut) = 2
    /\ dataOut[1].Miss
    /\ ~dataOut[2].Miss
    /\ dataOut[1].Opaque # dataOut[2].Opaque

\* C7: when txn.Get fails at key i with an error other than not-found, the
\* results for the keys before i are on the result queue in order and nothing
\* is added for key i or a later key; exactly one error is put on the error
\* queue and both queues get closed; the error is on the error queue whenever
\* the result queue is closed.
C7_BatchError ==
    gerr # "nil"
    => /\ gpc \in {"senderr", "closedata", "closeerr", "done"}
       /\ Len(dataOut) = gidx - 1
       /\ gidx <= Len(greq.Keys)
       /\ \A j \in 1..Len(dataOut) :
             dataOut[j].Key = greq.Keys[j] /\ dataOut[j].Opaque = greq.Opaques[j]
       /\ gpc # "senderr" => errorOut = <<gerr>>
       /\ dataClosed => errorOut = <<gerr>>
       /\ gpc = "done" => dataClosed /\ errorClosed

C7_Witness ==
    /\ gpc = "done"
    /\ gerr # "nil"
    /\ Len(greq.Keys) = 2
    /\ Len(dataOut) = 1
    /\ errorOut = <<gerr>>

\* C8: Add on a key with a record fails with KeyExists and changes nothing;
\* Add on a key with no record succeeds and stores the entry, and a Get of the
\* key right afterwards is a hit with the added flags and payload.
C8_Add ==
    [][\A k \in Keys, ttl \in TTLs, f \in FlagVals, d \in Payloads :
          Add(k, ttl, f, d)
          => IF k \in DOMAIN table
             THEN last'.err = "ErrKeyExists" /\ table' = table
             ELSE /\ last'.err = "nil"
                  /\ DOMAIN table' = DOMAIN table \cup {k}
                  /\ \A x \in DOMAIN table : table'[x] = table[x]
                  /\ LET g == lookup(table', k, now')
                     IN ~g.miss /\ g.flags = f /\ g.data = d]_vars

C8_Witness ==
    /\ last.op = "Add"
    /\ last.err = "ErrKeyExists"
    /\ last.key \in DOMAIN table
    /\ payloadOf(table[last.key]) \notin Payloads

\* C9: Replace on a key with no record fails with KeyNotFound and leaves the
\* table as it was; on a key with a record it stores the new flags, payload
\* and the expiration computed from the request TTL.
C9_Replace ==
    [][\A k \in Keys, ttl \in TTLs, f \in FlagVals, d \in Payloads :
          Replace(k, ttl, f, d)
          => IF k \notin DOMAIN table
             THEN last'.err = "ErrKeyNotFound" /\ table' = table
             ELSE /\ last'.err = "nil"
                  /\ table' = [table EXCEPT
                                  ![k] = <<compute_expiration(ttl, now), f>> \o d]]_vars

C9_Witness ==
    /\ last.op = "Replace"
    /\ last.err = "nil"
    /\ last.key \in DOMAIN table
    /\ \E x \in DOMAIN table : x # last.key /\ table[x] # table[last.key]

\* C10: Append and Prepend on an existing key keep the stored flags and
\* expiration and change only the payload, to old ++ new and to new ++ old; on
\* an absent key both fail with KeyNotFound and create nothing.
C10_AppendPrepend ==
    [][\A k \in Keys, d \in Extras :
          /\ AppendCmd(k, d)
             => IF k \in DOMAIN table
                THEN /\ last'.err = "nil"
                     /\ table' = [table EXCEPT ![k] =
                           <<table[k][1], table[k][2]>> \o payloadOf(table[k]) \o d]
                ELSE last'.err = "ErrKeyNotFound" /\ table' = table
          /\ PrependCmd(k, d)
             => IF k \in DOMAIN table
                THEN /\ last'.err = "nil"
                     /\ table' = [table EXCEPT ![k] =
                           <<table[k][1], table[k][2]>> \o d \o payloadOf(table[k])]
                ELSE last'.err = "ErrKeyNotFound" /\ table' = table]_vars

C10_Witness ==
    /\ last.op = "Prepend"
    /\ last.err = "nil"
    /\ payloadOf(table[last.key]) = <<2, 1>>
    /\ table[last.key][1] # 0
    /\ table[last.key][2] # 0

\* C11: Touch on an existing key, and GAT on a key whose entry is not expired,
\* change only the expiration of the stored record: flags and payload stay as
\* they were and no other key changes, a Get of the key right afterwards is a
\* hit with those flags and that payload, and GAT's response is a hit carrying
\* the flags and payload that were stored.
C11_TouchChangesOnlyExpiration ==
    [][\A k \in Keys, ttl \in TTLs :
          (/\ k \in DOMAIN table
           /\ \/ Touch(k, ttl)
              \/ GAT(k, ttl) /\ ~is_expired(table[k][1], now))
          => /\ last'.err = "nil"
             /\ DOMAIN table' = DOMAIN table
             /\ \A x \in DOMAIN table \ {k} : table'[x] = table[x]
             /\ table'[k][2] = table[k][2]
             /\ payloadOf(table'[k]) = payloadOf(table[k])
             /\ LET g == lookup(table', k, now')
                IN ~g.miss /\ g.flags = table[k][2] /\ g.data = payloadOf(table[k])
             /\ GAT(k, ttl)
                => /\ ~last'.miss
                   /\ last'.rflags = table[k][2]
                   /\ last'.rdata = payloadOf(table[k])]_vars

\* a GAT has just returned the flags and the extended payload of a record whose
\* expiration it replaced
C11_Witness ==
    /\ last.op = "GAT"
    /\ ~last.miss
    /\ last.rflags = 1
    /\ last.rdata = <<1, 2>>
    /\ last.key \in DOMAIN table
    /\ table[last.key] = <<now + 1, 1, 1, 2>>

\* C12: Delete on a key with no record returns KeyNotFound and leaves the
\* table as it was; Delete on a key with a record, expired or not, removes it
\* and nothing else, and a Get of the key right afterwards misses.
C12_Delete ==
    [][\A k \in Keys :
          Delete(k)
          => IF k \notin DOMAIN table
             THEN last'.err = "ErrKeyNotFound" /\ table' = table
             ELSE /\ last'.err = "nil"
                  /\ DOMAIN table' = DOMAIN table \ {k}
                  /\ \A x \in DOMAIN table' : table'[x] = table[x]
                  /\ lookup(table', k, now').miss]_vars

\* a Delete has just removed one key and left the other, an expired record
C12_Witness ==
    /\ last.op = "Delete"
    /\ last.err = "nil"
    /\ last.key \notin DOMAIN table
    /\ \E x \in DOMAIN table : is_expired(table[x][1], now)

\* C13: for every ttl > 0 and every t0, in wrapping uint32 arithmetic, the
\* expiration that Set, Add or Replace stores at time t0 for that ttl is not
\* expired at time t0 + ttl - 1 and is expired at time t0 + ttl + 1.
C13_ExpiresAfterTTL ==
    [][\A k \in {1}, ttl \in WrapTTLs :
          (\/ Set(k, ttl, 0, <<1>>)
           \/ Add(k, ttl, 0, <<1>>) /\ k \notin DOMAIN table
           \/ Replace(k, ttl, 0, <<1>>) /\ k \in DOMAIN table)
          => /\ ~expired(bufToEntry(table'[k]), (now + ttl + U32 - 1) % U32)
             /\ expired(bufToEntry(table'[k]), (now + ttl + 1) % U32)]_vars

C15_Singleton ==
    /\ ninit <= 1
    /\ nreaper <= 1
    /\ \A c \in Callers : cret[c] \in {"none", "handler"}

\* C16: Touch with a TTL > 0 on a key whose entry is expired but still in the
\* table succeeds and stores now + ttl with the flags and payload as they were;
\* a Get of the key is then a hit with those flags and that payload, and the
\* reaper's update transaction for the key leaves it in place, from the Touch
\* until the new expiration has passed.
C16_TouchResurrects ==
    /\ [][\A k \in Keys, ttl \in TTLs \ {0} :
             (Touch(k, ttl) /\ k \in DOMAIN table /\ is_expired(table[k][1], now))
             => /\ last'.err = "nil"
                /\ table' = [table EXCEPT ![k][1] = now + ttl]
                /\ \A t \in now..(now + ttl) :
                      /\ LET g == lookup(table', k, t)
                         IN /\ ~g.miss
                            /\ g.flags = table[k][2]
                            /\ g.data = payloadOf(table[k])
                      /\ ReapTxn(table', k, t).tbl = table']_vars
    /\ [][(/\ ReaperReap
            /\ refreshed # << >>
            /\ last.op = "Touch" /\ last.key = rkey /\ last.err = "nil"
            /\ rkey \in DOMAIN table
            /\ ~is_expired(table[rkey][1], now))
           => table' = table]_vars

\* the scan marked rcur as expired, a Touch with TTL 1 then stored now + 1 for
\* it, and the reaper's update transaction has run and left the record
C16_Witness ==
    /\ rpc = "scan"
    /\ refreshed = <<1>>
    /\ last.op = "Touch"
    /\ last.err = "nil"
    /\ last.key = rcur
    /\ rcur \in DOMAIN table
    /\ table[rcur][1] = now + 1

\* C17: when the record of a reaper candidate is gone by the time of its update
\* transaction, the sweep goes on from the same cursor position without a
\* failure, so that every later candidate is still processed; any other error
\* of the cursor or of the update transaction ends that sweep at once, and a
\* new sweep starts afterwards.
C17_ReaperErrors ==
    /\ [][(ReaperReap /\ rkey \notin DOMAIN table /\ rerr' # "MDB_OTHER")
           => /\ rerr' = "MDB_NOTFOUND"
              /\ rpc' = "scan"
              /\ rfailed' = rfailed
              /\ table' = table
              /\ rcur' = rcur
              /\ rsnap' = rsnap]_vars
    /\ []SweepRemovesExpired
    /\ [][((ReaperReap \/ ReaperScan) /\ rerr' = "MDB_OTHER")
           => rpc' = "after" /\ table' = table]_vars
    /\ (rpc = "after" /\ rfailed) ~> (rpc = "scan" /\ ~rfailed)

\* the update transaction for key 1 has found no record and the sweep goes on,
\* with key 2 still to be reaped
C17_Witness ==
    /\ rpc = "scan"
    /\ rerr = "MDB_NOTFOUND"
    /\ ~rfailed
    /\ rcur = 1
    /\ 2 \in untouched
    /\ 2 \in DOMAIN table

\* C18: all results of one batched Get/GetE come from the one table state that
\* was committed when its read transaction began, whatever is committed while
\* the batch runs: the snapshot is the table at the View and does not change
\* during the loop, every hit carries the record of its key in the snapshot,
\* and every miss is for a key absent from the snapshot or expired in it.
C18_OneSnapshot ==
    /\ [][GetView => gsnap' = table]_vars
    /\ [][(gpc = "loop" /\ gpc' = "loop") => gsnap' = gsnap]_vars
    /\ [](gpc = "loop"
          => \A i \in 1..Len(dataOut) :
                LET k == greq.Keys[i]
                    res == dataOut[i]
                IN IF res.Miss
                   THEN k \notin DOMAIN gsnap \/ is_expired(gsnap[k][1], now)
                   ELSE /\ k \in DOMAIN gsnap
                        /\ res.Flags = gsnap[k][2]
                        /\ res.Data = payloadOf(gsnap[k])
                        /\ greq.withExptime => res.Exptime = gsnap[k][1])

\* the read transaction began on the empty table; both keys have been stored
\* since, and both results of the batch are misses
C18_Witness ==
    /\ gpc = "loop"
    /\ gsnap = << >>
    /\ greq.Keys = <<1, 2>>
    /\ Len(dataOut) = 2
    /\ dataOut[1].Miss /\ dataOut[2].Miss
    /\ DOMAIN table = {1, 2}
    /\ \A k \in Keys : ~is_expired(table[k][1], now)

\* C19: with nobody receiving from its channels, the goroutine of a batched
\* Get/GetE never finds a channel full when it sends (the result channel's
\* buffer holds len(cmd.Keys) and gets at most one result per key, the error
\* channel's buffer holds 1 and gets at most one error), and once started it
\* always ends, with both channels closed.
C19_TaskTerminates ==
    /\ [](/\ Len(dataOut) <= Len(greq.Keys)
          /\ Len(errorOut) <= 1
          /\ gpc = "loop" => Len(dataOut) = gidx - 1
          /\ (gpc = "loop" /\ gidx <= Len(greq.Keys))
             => Len(dataOut) < Len(greq.Keys)
          /\ gpc = "senderr" => Len(errorOut) = 0
          /\ gpc = "done" => dataClosed /\ errorClosed)
    /\ (gpc = "view") ~> (gpc = "done" /\ dataClosed /\ errorClosed)

\* a batch of two keys has ended with both results still in the buffer and
\* both channels closed
C19_Witness ==
    /\ gpc = "done"
    /\ dataClosed /\ errorClosed
    /\ Len(greq.Keys) = 2
    /\ Len(dataOut) = 2
    /\ errorOut = << >>
    /\ greq.withExptime

\* C20: Add on a key whose record is expired but still in the table fails with
\* KeyExists and leaves the record as it is, although a Get of the key at that
\* instant misses; an Add succeeds only on a key with no record, and a record
\* leaves the table only through Delete or GAT of its key or the reaper's
\* update transaction for it.
C20_AddTestsPresence ==
    /\ [][\A k \in Keys, ttl \in TTLs :
             Add(k, ttl, 0, <<1>>)
             => /\ (k \in DOMAIN table /\ is_expired(table[k][1], now))
                   => /\ last'.err = "ErrKeyExists"
                      /\ table' = table
                      /\ lookup(table, k, now).miss
                      /\ lookup(table', k, now').miss
                /\ last'.err = "nil" => k \notin DOMAIN table]_vars
    /\ [][\A k \in Keys :
             (k \in DOMAIN table /\ k \notin DOMAIN table')
             => \/ Delete(k)
                \/ \E ttl \in TTLs : GAT(k, ttl)
                \/ ReaperReap /\ rkey = k]_vars

\* an Add has just failed with KeyExists on a record that is expired
C20_Witness ==
    /\ last.op = "Add"
    /\ last.stale
    /\ last.err = "ErrKeyExists"
    /\ last.key \in DOMAIN table
    /\ lookup(table, last.key, now).miss
====
